---- MODULE Spec2Model ----
(***************************************************************************)
(* Model of package closer (closer.go): a Closer holds a list of closing   *)
(* functions, runs them concurrently once under sync.Once when CloseAll is *)
(* called (by the application or by the signal watcher started in New),    *)
(* and reports completion on the buffered channel done.                    *)
(*                                                                         *)
(* Goroutines are modelled one step per synchronisation operation:         *)
(*   application goroutines (Procs) call Add, CloseAll and Wait;           *)
(*   the watcher goroutine of New subscribes, receives a signal, stops     *)
(*   and calls CloseAll;                                                   *)
(*   one goroutine per drained function runs it and sends its outcome;     *)
(*   one goroutine waits for the WaitGroup and closes errs.                *)
(* sync.Once.Do is modelled as the standard library implements it: an      *)
(* atomic done flag (fast path) and a mutex held while the function runs.  *)
(***************************************************************************)
EXTENDS Integers, Sequences, FiniteSets

\* ---- bounds of the model -------------------------------------------------
NumProcs == 2
MaxRegs == 2
MaxCount == 2

\* ---- program constants ---------------------------------------------------
DoneCap == 1
SigCap == 1

Procs == 1 .. NumProcs
Watcher == 0
Threads == Procs \cup {Watcher}
Ids == 1 .. MaxRegs

VARIABLES
    nsigs,        \* len(sigs) given to New
    funcs,        \* c.funcs: sequence of registrations
    mu,           \* c.mu: set holding the goroutine that owns the mutex
    seen,         \* c.funcs as read by each goroutine inside Add (operand of append)
    onceDone,     \* c.once: its done flag
    onceM,        \* c.once: its mutex (set holding the owner)
    doneBuf,      \* c.done: number of buffered values
    doneClosed,   \* c.done: closed
    pc,           \* position of each application goroutine and of the watcher
    batch,        \* arguments of the Add call in progress, per goroutine
    nextId,       \* next fresh registration
    drained,      \* local funcs of the winning CloseAll
    act,          \* state of the goroutine launched for drained[i]
    wg,           \* WaitGroup counter
    errs,         \* errs channel: buffered outcomes (TRUE: non-nil error)
    errsClosed,   \* errs channel: closed
    closerPc,     \* goroutine of lines 103-106
    logs,         \* number of log lines written
    execs,        \* how often each registration's function was called
    failed,       \* registrations whose function returned a non-nil error
    subscribed,   \* signal.Notify in effect for ch
    sigCh,        \* number of signals buffered in ch
    delivered,    \* a signal has been delivered to the process
    panicked,     \* a goroutine panicked (send on closed channel, double close)
    hist          \* history record used only by the properties

vars == <<nsigs, funcs, mu, seen, onceDone, onceM, doneBuf, doneClosed, pc, batch,
          nextId, drained, act, wg, errs, errsClosed, closerPc, logs, execs,
          failed, subscribed, sigCh, delivered, panicked, hist>>

listVars == <<funcs, mu, seen>>
onceVars == <<onceDone, onceM>>
doneVars == <<doneBuf, doneClosed>>
runVars == <<drained, act, wg, errs, errsClosed, closerPc, logs, execs, failed>>
sigVars == <<subscribed, sigCh, delivered>>

\* ---- pure pieces of the code ----------------------------------------------

\* variant: the watcher is started whatever the signal set
NewAlwaysStartsWatcher(n) == n >= 0

\* New, line 52: the watcher goroutine is started only for a non-empty set.
NewStartsWatcher(n) == n > 0

\* variant: only the first argument is appended
AppendFuncsFirstOnly(fs, b) == Append(fs, b[1])

\* variant: c.funcs = f
AppendFuncsOverwrite(fs, b) == b

\* Add, line 68: c.funcs = append(c.funcs, f...)
AppendFuncs(fs, b) == fs \o b

\* variant: the list is read but not replaced
SwapFuncsKeep(fs) == fs

\* CloseAll, line 90: c.funcs = nil
SwapFuncs(fs) == << >>

\* variant: errs := make(chan error, 1)
ErrsCapOne(n) == 1

\* CloseAll, line 94: errs := make(chan error, len(funcs))
ErrsCap(n) == n

\* variant: every goroutine reads the loop variable after the loop has ended
LaunchedFnShared(fs, i) == fs[Len(fs)]

\* CloseAll, lines 95-100: the goroutine launched in iteration i calls the
\* function passed to it as argument, drained[i].
LaunchedFn(fs, i) == fs[i]

\* variant: wg.Done() is never called
WgDoneMissing(n) == n

\* CloseAll, line 98: defer wg.Done()
WgDone(n) == n - 1

\* variant: close(errs) without waiting for the WaitGroup
WgWaitSkipped(n) == TRUE

\* CloseAll, line 104: wg.Wait() returns when the counter is zero.
WgWaitReturns(n) == n = 0

\* variant: the collector stops as soon as errs is closed, outcomes left in it
RangeEndsWhenClosed(q, closed) == closed

\* variant: the collector stops as soon as it finds errs empty
RangeEndsWhenEmpty(q, closed) == q = << >>

\* CloseAll, line 108: for err := range errs ends when errs is closed and empty.
RangeEnds(q, closed) == closed /\ q = << >>

\* variant: errors are dropped without a log line
LogOutcomeNever(n, err) == n

\* CloseAll, lines 109-111: one log line per non-nil error.
LogOutcome(n, err) == IF err THEN n + 1 ELSE n

\* variant: no deferred close, the buffered value is the only signal
DeferredCloseMissing(closed) == FALSE

\* CloseAll, line 87: defer close(c.done)
DeferredClose(closed) == TRUE

\* variant: the receive from done never waits
WaitNeverBlocks(buf, closed) == TRUE

\* Wait, line 75: <-c.done returns a buffered value or the zero value of a
\* closed channel.
WaitCanRecv(buf, closed) == buf > 0 \/ closed

\* sync.Once.Do, fast path: return at once when the done flag is set.
OnceFastDone(d) == d

\* variant: the flag is not re-checked under the mutex
OnceAlwaysRuns(d) == TRUE

\* sync.Once.Do, slow path: under the mutex, run f if done is still unset.
OnceMustRun(d) == ~d

\* variant: a caller does not wait for the mutex
OnceNeverBlocks(m) == TRUE

\* sync.Once.Do, slow path: o.m.Lock() blocks while another caller holds it.
OnceCanLock(m) == m = {}

\* variant: c.mu is not taken
MuNeverBlocks(m) == TRUE

\* sync.Mutex.Lock on c.mu
MuCanLock(m) == m = {}

\* variant: done made without a buffer, no receiver standing by
DoneUnbuffered(buf) == FALSE

\* line 114: a send on done goes through while its buffer (line 51) has room
DoneHasRoom(buf) == buf < DoneCap

\* os/signal: a delivery reaches ch while Notify is in effect and ch has room.
SignalRelayed(sub, n) == sub /\ n < SigCap

\* ---- helpers ----------------------------------------------------------------
Range(q) == {q[i] : i \in 1 .. Len(q)}
Fresh(k) == [i \in 1 .. k |-> nextId + i - 1]
Ret(t) == IF t = Watcher THEN "w_exit" ELSE "idle"
CallPc(t) == IF t = Watcher THEN "w_call" ELSE "idle"

\* registrations whose Add call has returned
Completed == (1 .. (nextId - 1)) \ UNION {Range(batch[p]) : p \in Procs}

Init ==
    /\ nsigs \in {0, 1}
    /\ funcs = << >>
    /\ mu = {}
    /\ seen = [p \in Procs |-> << >>]
    /\ onceDone = FALSE
    /\ onceM = {}
    /\ doneBuf = 0
    /\ doneClosed = FALSE
    /\ pc = [t \in Threads |->
               IF t = Watcher
               THEN (IF NewStartsWatcher(nsigs) THEN "w_start" ELSE "w_off")
               ELSE "idle"]
    /\ batch = [p \in Procs |-> << >>]
    /\ nextId = 1
    /\ drained = << >>
    /\ act = << >>
    /\ wg = 0
    /\ errs = << >>
    /\ errsClosed = FALSE
    /\ closerPc = "none"
    /\ logs = 0
    /\ execs = [i \in Ids |-> 0]
    /\ failed = {}
    /\ subscribed = FALSE
    /\ sigCh = 0
    /\ delivered = FALSE
    /\ panicked = FALSE
    /\ hist = [begun |-> FALSE, beginRegs |-> {}, lateCall |-> FALSE,
               runs |-> 0, sends |-> 0, swaps |-> 0, swapRegs |-> {},
               batches |-> {}, sent |-> 0, recvd |-> 0]

\* ---- Add (lines 66-70) --------------------------------------------------------
\* The call with k functions as arguments, line 67: c.mu.Lock(), and the read
\* of c.funcs for the append of line 68. A call that waits for the mutex has
\* not yet done anything another goroutine can see.
AddLock(p, k) ==
    /\ pc[p] = "idle"
    /\ nextId + k - 1 <= MaxRegs
    /\ MuCanLock(mu)
    /\ mu' = {p}
    /\ seen' = [seen EXCEPT ![p] = funcs]
    /\ batch' = [batch EXCEPT ![p] = Fresh(k)]
    /\ nextId' = nextId + k
    /\ pc' = [pc EXCEPT ![p] = "add_app"]
    /\ hist' = [hist EXCEPT !.batches = @ \cup {Range(Fresh(k))}]
    /\ UNCHANGED <<nsigs, funcs, onceVars, doneVars, runVars, sigVars, panicked>>

\* lines 68-69: store the appended slice in c.funcs, unlock, return
AddAppend(p) ==
    /\ pc[p] = "add_app"
    /\ funcs' = AppendFuncs(seen[p], batch[p])
    /\ mu' = mu \ {p}
    /\ seen' = [seen EXCEPT ![p] = << >>]
    /\ batch' = [batch EXCEPT ![p] = << >>]
    /\ pc' = [pc EXCEPT ![p] = "idle"]
    /\ UNCHANGED <<nsigs, nextId, onceVars, doneVars, runVars, sigVars, panicked, hist>>

\* ---- Wait (lines 74-76) -------------------------------------------------------
WaitCall(p) ==
    /\ pc[p] = "idle"
    /\ pc' = [pc EXCEPT ![p] = "wait"]
    /\ UNCHANGED <<nsigs, listVars, onceVars, doneVars, batch, nextId, runVars, sigVars, panicked, hist>>

WaitRecv(p) ==
    /\ pc[p] = "wait"
    /\ WaitCanRecv(doneBuf, doneClosed)
    /\ doneBuf' = IF doneBuf > 0 THEN doneBuf - 1 ELSE doneBuf
    /\ pc' = [pc EXCEPT ![p] = "idle"]
    /\ UNCHANGED <<nsigs, listVars, onceVars, doneClosed, batch, nextId, runVars, sigVars, panicked, hist>>

\* ---- CloseAll (lines 85-116) --------------------------------------------------
\* c.once.Do(...): the fast path reads the done flag; a caller that finds it
\* set returns at once, any other goes on to o.m.Lock().
CloseAllCall(t) ==
    /\ pc[t] = CallPc(t)
    /\ pc' = [pc EXCEPT ![t] = IF OnceFastDone(onceDone) THEN Ret(t) ELSE "once_lock"]
    /\ hist' = [hist EXCEPT
                  !.begun = TRUE,
                  !.beginRegs = IF hist.begun THEN @ ELSE Completed,
                  !.lateCall = @ \/ (doneClosed /\ funcs # << >>)]
    /\ UNCHANGED <<nsigs, listVars, onceVars, doneVars, batch, nextId, runVars, sigVars, panicked>>

\* doSlow: o.m.Lock(); if o.done is unset the caller runs f (and registers
\* defer close(c.done), line 87), otherwise it only unlocks and returns.
OnceLock(t) ==
    /\ pc[t] = "once_lock"
    /\ OnceCanLock(onceM)
    /\ onceM' = onceM \cup {t}
    /\ pc' = [pc EXCEPT ![t] = IF OnceMustRun(onceDone) THEN "drain" ELSE "loser_unlock"]
    /\ hist' = [hist EXCEPT !.runs = IF OnceMustRun(onceDone) /\ @ < MaxCount THEN @ + 1 ELSE @]
    /\ UNCHANGED <<nsigs, listVars, onceDone, doneVars, batch, nextId, runVars, sigVars, panicked>>

\* doSlow of a caller that found done set: the deferred o.m.Unlock(); return
LoserUnlock(t) ==
    /\ pc[t] = "loser_unlock"
    /\ onceM' = onceM \ {t}
    /\ pc' = [pc EXCEPT ![t] = Ret(t)]
    /\ UNCHANGED <<nsigs, listVars, onceDone, doneVars, batch, nextId, runVars, sigVars, panicked, hist>>

\* lines 88-94: lock, take the list, leave nil, unlock; fresh WaitGroup and errs
DrainSwap(t) ==
    /\ pc[t] = "drain"
    /\ MuCanLock(mu)
    /\ drained' = funcs
    /\ funcs' = SwapFuncs(funcs)
    /\ wg' = 0
    /\ errs' = << >>
    /\ errsClosed' = FALSE
    /\ act' = << >>
    /\ closerPc' = "none"
    /\ pc' = [pc EXCEPT ![t] = "launch"]
    /\ hist' = [hist EXCEPT !.swaps = IF @ < MaxCount THEN @ + 1 ELSE @,
                            !.swapRegs = Completed,
                            !.sent = 0,
                            !.recvd = 0]
    /\ UNCHANGED <<nsigs, mu, seen, onceVars, doneVars, batch, nextId, logs, execs, failed,
                   sigVars, panicked>>

\* lines 95-101, one iteration: wg.Add(1); go func(fn) {... fn() ...}(fn).
\* The new goroutine calls its function.
LaunchOne(t) ==
    /\ pc[t] = "launch"
    /\ Len(act) < Len(drained)
    /\ wg' = wg + 1
    /\ act' = Append(act, "running")
    /\ execs' = [execs EXCEPT ![LaunchedFn(drained, Len(act) + 1)] = IF @ < MaxCount THEN @ + 1 ELSE @]
    /\ UNCHANGED <<nsigs, listVars, onceVars, doneVars, pc, batch, nextId, drained, errs,
                   errsClosed, closerPc, logs, failed, sigVars, panicked, hist>>

\* lines 103-106: after the loop, start the goroutine that closes errs
LaunchEnd(t) ==
    /\ pc[t] = "launch"
    /\ Len(act) = Len(drained)
    /\ closerPc' = "wait"
    /\ pc' = [pc EXCEPT ![t] = "collect"]
    /\ UNCHANGED <<nsigs, listVars, onceVars, doneVars, batch, nextId, drained, act, wg, errs,
                   errsClosed, logs, execs, failed, sigVars, panicked, hist>>

\* line 99: fn() returns nil (e = FALSE) or a non-nil error (e = TRUE). A
\* function that has called c.Wait() returns after its receive from done
\* (line 75); one that has called c.CloseAll() returns after once.Do has let
\* it through (o.m free, done flag set).
ActReturn(i, e) ==
    /\ i \in 1 .. Len(act)
    /\ \/ act[i] = "running"
       \/ act[i] = "in_wait" /\ WaitCanRecv(doneBuf, doneClosed)
       \/ act[i] = "in_once" /\ OnceCanLock(onceM) /\ ~OnceMustRun(onceDone)
    /\ doneBuf' = IF act[i] = "in_wait" /\ doneBuf > 0 THEN doneBuf - 1 ELSE doneBuf
    /\ act' = [act EXCEPT ![i] = IF e THEN "ret_err" ELSE "ret_ok"]
    /\ failed' = IF e THEN failed \cup {LaunchedFn(drained, i)} ELSE failed
    /\ UNCHANGED <<nsigs, listVars, onceVars, doneClosed, pc, batch, nextId, drained, wg, errs,
                   errsClosed, closerPc, logs, execs, sigVars, panicked, hist>>

\* fn() calls c.Wait() on the same Closer (line 75: <-c.done)
ActCallWait(i) ==
    /\ i \in 1 .. Len(act)
    /\ act[i] = "running"
    /\ act' = [act EXCEPT ![i] = "in_wait"]
    /\ UNCHANGED <<nsigs, listVars, onceVars, doneVars, pc, batch, nextId, drained, wg, errs,
                   errsClosed, closerPc, logs, execs, failed, sigVars, panicked, hist>>

\* fn() calls c.CloseAll() on the same Closer (line 86: c.once.Do): with the
\* done flag set the call returns at once, otherwise it goes on to o.m.Lock()
ActCallCloseAll(i) ==
    /\ i \in 1 .. Len(act)
    /\ act[i] = "running"
    /\ act' = [act EXCEPT ![i] = IF OnceFastDone(onceDone) THEN "running" ELSE "in_once"]
    /\ UNCHANGED <<nsigs, listVars, onceVars, doneVars, pc, batch, nextId, drained, wg, errs,
                   errsClosed, closerPc, logs, execs, failed, sigVars, panicked, hist>>

\* fn() never returns
ActHang(i) ==
    /\ i \in 1 .. Len(act)
    /\ act[i] = "running"
    /\ act' = [act EXCEPT ![i] = "hung"]
    /\ UNCHANGED <<nsigs, listVars, onceVars, doneVars, pc, batch, nextId, drained, wg, errs,
                   errsClosed, closerPc, logs, execs, failed, sigVars, panicked, hist>>

\* lines 98-99: the send errs <- result (it blocks while the buffer is full
\* and panics on a closed channel), then the deferred wg.Done()
ActSend(i) ==
    /\ i \in 1 .. Len(act)
    /\ act[i] \in {"ret_ok", "ret_err"}
    /\ errsClosed \/ Len(errs) < ErrsCap(Len(drained))
    /\ errs' = IF errsClosed THEN errs ELSE Append(errs, act[i] = "ret_err")
    /\ panicked' = (panicked \/ errsClosed)
    /\ act' = [act EXCEPT ![i] = "fin"]
    /\ wg' = WgDone(wg)
    /\ hist' = [hist EXCEPT !.sent = IF errsClosed THEN @ ELSE @ + 1]
    /\ UNCHANGED <<nsigs, listVars, onceVars, doneVars, pc, batch, nextId, drained,
                   errsClosed, closerPc, logs, execs, failed, sigVars>>

\* lines 104-105: wg.Wait(); close(errs)
CloserClose ==
    /\ closerPc = "wait"
    /\ WgWaitReturns(wg)
    /\ errsClosed' = TRUE
    /\ closerPc' = "exit"
    /\ UNCHANGED <<nsigs, listVars, onceVars, doneVars, pc, batch, nextId, drained, act, wg,
                   errs, logs, execs, failed, sigVars, panicked, hist>>

\* lines 108-112, one iteration of the range loop
Collect(t) ==
    /\ pc[t] = "collect"
    /\ errs # << >>
    /\ logs' = LogOutcome(logs, Head(errs))
    /\ errs' = Tail(errs)
    /\ hist' = [hist EXCEPT !.recvd = @ + 1]
    /\ UNCHANGED <<nsigs, listVars, onceVars, doneVars, pc, batch, nextId, drained, act, wg,
                   errsClosed, closerPc, execs, failed, sigVars, panicked>>

\* line 108: the range loop ends
CollectEnd(t) ==
    /\ pc[t] = "collect"
    /\ RangeEnds(errs, errsClosed)
    /\ pc' = [pc EXCEPT ![t] = "send_done"]
    /\ UNCHANGED <<nsigs, listVars, onceVars, doneVars, batch, nextId, runVars, sigVars,
                   panicked, hist>>

\* line 114: c.done <- struct{}{}; blocks while the buffer is full, panics
\* on a closed channel
SendDone(t) ==
    /\ pc[t] = "send_done"
    /\ doneClosed \/ DoneHasRoom(doneBuf)
    /\ doneBuf' = IF doneClosed THEN doneBuf ELSE doneBuf + 1
    /\ panicked' = (panicked \/ doneClosed)
    /\ pc' = [pc EXCEPT ![t] = "close_done"]
    /\ hist' = [hist EXCEPT !.sends = IF doneClosed \/ @ >= MaxCount THEN @ ELSE @ + 1]
    /\ UNCHANGED <<nsigs, listVars, onceVars, doneClosed, batch, nextId, runVars, sigVars>>

\* line 87: the deferred close(c.done); closing a closed channel panics
CloseDone(t) ==
    /\ pc[t] = "close_done"
    /\ doneClosed' = (doneClosed \/ DeferredClose(doneClosed))
    /\ panicked' = (panicked \/ (doneClosed /\ DeferredClose(doneClosed)))
    /\ pc' = [pc EXCEPT ![t] = "once_store"]
    /\ UNCHANGED <<nsigs, listVars, onceVars, doneBuf, batch, nextId, runVars, sigVars, hist>>

\* doSlow: the deferred o.done.Store(1) and o.m.Unlock(); CloseAll returns
OnceFinish(t) ==
    /\ pc[t] = "once_store"
    /\ onceDone' = TRUE
    /\ onceM' = onceM \ {t}
    /\ pc' = [pc EXCEPT ![t] = Ret(t)]
    /\ UNCHANGED <<nsigs, listVars, doneVars, batch, nextId, runVars, sigVars, panicked, hist>>

\* ---- New (lines 50-62): the watcher goroutine ---------------------------------
\* lines 54-55: ch := make(chan os.Signal, 1); signal.Notify(ch, sigs...)
WatcherNotify ==
    /\ pc[Watcher] = "w_start"
    /\ subscribed' = TRUE
    /\ pc' = [pc EXCEPT ![Watcher] = "w_recv"]
    /\ UNCHANGED <<nsigs, listVars, onceVars, doneVars, batch, nextId, runVars, sigCh,
                   delivered, panicked, hist>>

\* lines 56-57: <-ch; signal.Stop(ch). Line 58 is CloseAllCall(Watcher).
WatcherRecv ==
    /\ pc[Watcher] = "w_recv"
    /\ sigCh > 0
    /\ sigCh' = sigCh - 1
    /\ subscribed' = FALSE
    /\ pc' = [pc EXCEPT ![Watcher] = "w_call"]
    /\ UNCHANGED <<nsigs, listVars, onceVars, doneVars, batch, nextId, runVars,
                   delivered, panicked, hist>>

\* The environment delivers a signal of the requested kind to the process.
\* It reaches ch only while Notify is in effect and ch has room; what the
\* runtime does with a signal nobody is notified of is outside the Closer.
SignalDeliver ==
    /\ delivered' = TRUE
    /\ sigCh' = IF SignalRelayed(subscribed, sigCh) THEN sigCh + 1 ELSE sigCh
    /\ UNCHANGED <<nsigs, listVars, onceVars, doneVars, pc, batch, nextId, runVars,
                   subscribed, panicked, hist>>

\* ---- specification --------------------------------------------------------------
ThreadStep(t) ==
    \/ OnceLock(t) \/ LoserUnlock(t)
    \/ DrainSwap(t)
    \/ LaunchOne(t) \/ LaunchEnd(t)
    \/ Collect(t) \/ CollectEnd(t)
    \/ SendDone(t) \/ CloseDone(t)
    \/ OnceFinish(t)

ProcStep(p) ==
    \/ AddAppend(p)
    \/ WaitRecv(p)

WatcherStep ==
    \/ WatcherNotify \/ WatcherRecv
    \/ CloseAllCall(Watcher)

ActStep(i) ==
    \/ (\E e \in BOOLEAN : ActReturn(i, e))
    \/ ActSend(i)

Next ==
    \/ \E p \in Procs : \E k \in 1 .. MaxRegs : AddLock(p, k)
    \/ \E p \in Procs : WaitCall(p)
    \/ \E p \in Procs : CloseAllCall(p)
    \/ \E p \in Procs : ProcStep(p)
    \/ \E t \in Threads : ThreadStep(t)
    \/ WatcherStep
    \/ \E i \in Ids : ActStep(i)
    \/ \E i \in Ids : ActHang(i)
    \/ \E i \in Ids : ActCallWait(i)
    \/ \E i \in Ids : ActCallCloseAll(i)
    \/ CloserClose
    \/ SignalDeliver

Spec == Init /\ [][Next]_vars

\* Fair scheduling of every goroutine's own steps. Calls made by the
\* application, signal deliveries and what a function chooses to do before
\* it returns (hang, call back into the Closer) are not forced.
Fairness ==
    /\ \A p \in Procs : WF_vars(ProcStep(p))
    /\ \A t \in Threads : WF_vars(ThreadStep(t))
    /\ WF_vars(WatcherStep)
    /\ \A i \in Ids : WF_vars(ActStep(i))
    /\ WF_vars(CloserClose)

FairSpec == Init /\ [][Next]_vars /\ Fairness

\* ---- state predicates shared by the properties ------------------------------------
\* completion is set: a value has been sent on done, or done is closed
CompletionSet == hist.sends > 0 \/ doneClosed

\* every drained function has been launched, has returned, has sent its
\* outcome, and the collector has received every outcome
AllProcessed ==
    /\ Len(act) = Len(drained)
    /\ \A i \in 1 .. Len(act) : act[i] = "fin"
    /\ errs = << >>

\* a launched function that called Wait or CloseAll on the same Closer and
\* is inside that call
Reentrant == \E i \in 1 .. Len(act) : act[i] \in {"in_wait", "in_once"}

\* a launched function that hangs, or is held inside a call on the Closer
AnyHung == \E i \in 1 .. Len(act) : act[i] \in {"hung", "in_wait", "in_once"}

InOnce(t) == pc[t] \in {"once_lock", "loser_unlock", "drain", "launch", "collect",
                        "send_done", "close_done", "once_store"}

Count(id, q) == Cardinality({i \in 1 .. Len(q) : q[i] = id})

SumExecs ==
    LET S[n \in 0 .. MaxRegs] == IF n = 0 THEN 0 ELSE S[n - 1] + execs[n]
    IN S[MaxRegs]

\* ---- C1 -------------------------------------------------------------------------
\* C1: at-most-once execution. Whatever CloseAll calls are made, one after
\* another or concurrently, by the application or by the watcher, every
\* registration made by Add is executed at most once.
C1_AtMostOnce == \A id \in Ids : execs[id] <= 1

\* two registrations have been executed while another CloseAll caller, having
\* lost the latch, is still inside once.Do
C1_Witness ==
    /\ \E t \in Threads : pc[t] = "loser_unlock"
    /\ Len(drained) >= 2
    /\ \A id \in Range(drained) : execs[id] = 1

\* ---- C2 -------------------------------------------------------------------------
\* C2: no omissions. When completion is set, every registration whose Add had
\* returned before the first CloseAll call began has been executed exactly
\* once; the executions are one per drained registration, so they are exactly
\* N when the N registrations completed before that call are the whole list.
C2_NoOmissions ==
    CompletionSet =>
        /\ \A id \in hist.beginRegs : execs[id] = 1
        /\ hist.beginRegs \subseteq Range(drained)
        /\ SumExecs = Len(drained)
        /\ (Range(drained) = hist.beginRegs => SumExecs = Cardinality(hist.beginRegs))

\* completion after two registrations made by separate Add calls before the
\* first CloseAll call
C2_Witness ==
    /\ CompletionSet
    /\ Cardinality(hist.beginRegs) >= 2
    /\ drained \in {<<1, 2>>, <<2, 1>>}
    /\ SumExecs = 2

\* ---- C3 -------------------------------------------------------------------------
\* C3: completion ordering. Completion is set, and a Wait call can return,
\* only when every drained function has returned and the collector loop has
\* received its outcome.
C3_CompletionOrdering ==
    (CompletionSet \/ WaitCanRecv(doneBuf, doneClosed)) => AllProcessed

\* a Wait call has returned (it took the buffered value before done was
\* closed) after a run of two functions, one of which failed
C3_Witness ==
    /\ hist.sends = 1
    /\ doneBuf = 0
    /\ ~doneClosed
    /\ Len(drained) >= 2
    /\ failed # {}

\* ---- C4 -------------------------------------------------------------------------
\* C4 as stated: a CloseAll call that does not win the latch returns without
\* waiting for the winning call's functions to finish, that is, no caller is
\* ever held at the latch while a drained function has not finished.
C4_LosersNeverWait ==
    \A t \in Threads :
        (pc[t] = "once_lock" /\ ~OnceCanLock(onceM)) =>
            \A i \in 1 .. Len(act) : act[i] = "fin"

\* C4 amended: CloseAll calls other than the first never run the protocol (it
\* runs at most once), but a call that has entered once.Do before the winning
\* call finished returns only after the winner has set completion and closed
\* done.
C4_LosersReturnAfterCompletion ==
    /\ hist.runs <= 1
    /\ \A t \in Threads :
           pc[t] = "loser_unlock" => (onceDone /\ doneClosed /\ AllProcessed)

\* a caller that lost the latch is returning after a run that drained a function
C4_Witness ==
    /\ \E t \in Threads : pc[t] = "loser_unlock"
    /\ drained # << >>
    /\ hist.runs = 1

\* ---- C5 -------------------------------------------------------------------------
\* C5: all waiters are released. Once completion has been set, every Wait
\* call in progress returns, whether it was blocked before completion or
\* started after it.
C5_AllWaitersReleased ==
    \A p \in Procs : (pc[p] = "wait" /\ CompletionSet) ~> (pc[p] # "wait")

\* every application goroutine is blocked in Wait at the moment the value is
\* sent on done: one of them takes the value, the others need the close
C5_Witness ==
    /\ \A p \in Procs : pc[p] = "wait"
    /\ doneBuf = 1
    /\ ~doneClosed

\* ---- C6 -------------------------------------------------------------------------
\* C6: liveness of completion. Once CloseAll has been called, and unless a
\* drained function hangs, done is eventually closed and every Wait call in
\* progress eventually returns; also for an empty list.
C6_CompletionEventually ==
    /\ hist.begun ~> (doneClosed \/ AnyHung)
    /\ \A p \in Procs : (pc[p] = "wait" /\ hist.begun) ~> (pc[p] # "wait" \/ AnyHung)

\* an empty run has completed while a Wait call is in progress
C6_Witness ==
    /\ doneClosed
    /\ drained = << >>
    /\ hist.begun
    /\ \E p \in Procs : pc[p] = "wait"

C8_FailureIsolation ==
    /\ [](CompletionSet =>
            /\ \A id \in Range(drained) : execs[id] = 1
            /\ AllProcessed
            /\ logs = Cardinality(failed))
    /\ (failed # {}) ~> (doneClosed \/ AnyHung)

\* completion of a run in which one function failed and another succeeded
C8_Witness ==
    /\ doneClosed
    /\ Len(drained) >= 2
    /\ Cardinality(failed) = 1
    /\ logs = 1

\* ---- C9 -------------------------------------------------------------------------
\* C9 as stated: for a Closer built with a non-empty signal set the first
\* delivery of a watched signal makes the watcher stop listening and call
\* CloseAll; so after a delivery the signal is pending in ch or the watcher
\* has received it, and is never lost to a watcher still waiting.
C9_FirstDeliveryTriggers ==
    (nsigs > 0 /\ delivered) =>
        (sigCh > 0 \/ pc[Watcher] \notin {"w_start", "w_recv"})

\* ---- C10 ------------------------------------------------------------------------
\* C10: inert after completion. Once done is closed it stays closed, no
\* function is executed any more (also none added after completion), no
\* further value is sent, nothing panics, and a Wait call returns at once.
C10_InertAfterCompletion ==
    /\ [](doneClosed => WaitCanRecv(doneBuf, doneClosed))
    /\ [][doneClosed =>
            /\ doneClosed'
            /\ execs' = execs
            /\ drained' = drained
            /\ hist'.sends = hist.sends
            /\ hist'.runs = hist.runs
            /\ ~panicked']_vars

\* after completion a function has been added and CloseAll has been called
\* again: the function is still in the list, not executed
C10_Witness ==
    /\ doneClosed
    /\ hist.lateCall
    /\ funcs # << >>
    /\ \A t \in Threads : ~InOnce(t)
    /\ \E id \in Range(funcs) : execs[id] = 0

\* ---- C11 ------------------------------------------------------------------------
\* C11: a hung function blocks completion. While a drained function has not
\* returned and never will, no value is sent on done, done is not closed and
\* no Wait call can return, also when every other function has returned; the
\* winning CloseAll is still inside once.Do.
C11_HungBlocksCompletion ==
    AnyHung =>
        /\ ~CompletionSet
        /\ ~WaitCanRecv(doneBuf, doneClosed)
        /\ ~onceDone
        /\ \E t \in Threads : pc[t] \in {"launch", "collect"}

\* one function hangs, another has returned and its outcome has been
\* collected, and a Wait call is blocked
C11_Witness ==
    /\ \E i \in 1 .. Len(act) : act[i] = "hung"
    /\ \E i \in 1 .. Len(act) : act[i] = "fin"
    /\ errs = << >>
    /\ errsClosed = FALSE
    /\ \E p \in Procs : pc[p] = "wait"

\* ---- C12 ------------------------------------------------------------------------
\* C12: thread-safe registration. Whatever the interleaving of the Add calls,
\* no registration is duplicated, and once the list has been drained every
\* registration whose Add had returned before the first CloseAll call began is
\* in the drained list exactly once; when no other Add came in between, the
\* drained list holds exactly these registrations.
C12_NoLostNoDuplicate ==
    /\ \A id \in Ids : Count(id, funcs) + Count(id, drained) <= 1
    /\ hist.swaps > 0 =>
           /\ \A id \in hist.beginRegs : Count(id, drained) = 1
           /\ (Range(drained) = hist.beginRegs => Len(drained) = Cardinality(hist.beginRegs))

\* two separate Add calls, both returned before the first CloseAll call, and
\* the list drained
C12_Witness ==
    /\ hist.swaps = 1
    /\ Cardinality(hist.batches) >= 2
    /\ Cardinality(hist.beginRegs) >= 2
    /\ Len(drained) = Cardinality(hist.beginRegs)

\* ---- C13 ------------------------------------------------------------------------
\* the goroutine that won the latch is still running the function given to once.Do
WinnerInside ==
    \E t \in Threads : pc[t] \in {"drain", "launch", "collect", "send_done",
                                  "close_done", "once_store"}

\* C13: the winning CloseAll call suspends until completion. From the moment
\* it has won the latch it stays inside once.Do until it returns, and it
\* returns (the Once's done flag is set in the same step) only when every
\* drained function has returned, its outcome has been collected, the value
\* has been sent on done and done is closed.
C13_WinnerReturnsAfterCompletion ==
    /\ (hist.runs > 0 /\ ~onceDone) => WinnerInside
    /\ (onceDone \/ \E t \in Threads : pc[t] = "once_store") =>
           /\ AllProcessed
           /\ hist.sends = 1
           /\ doneClosed

\* the winning call has returned after a run of two functions, one failed
C13_Witness ==
    /\ onceDone
    /\ ~WinnerInside
    /\ Len(drained) >= 2
    /\ failed # {}

\* ---- C14 ------------------------------------------------------------------------
\* C14: single drain. The list is swapped at most once. After the swap the
\* drained list holds exactly the registrations whose Add had released the
\* mutex before it, and c.funcs holds none of them, only registrations whose
\* Add took the mutex later; these are never executed, not by a later
\* CloseAll either, while every drained one is executed once the launch loop
\* has passed it.
C14_SingleDrain ==
    /\ hist.swaps <= 1
    /\ hist.swaps > 0 =>
           /\ Range(drained) = hist.swapRegs
           /\ Range(funcs) \cap Range(drained) = {}
           /\ \A id \in Ids \ Range(drained) : execs[id] = 0
           /\ \A i \in 1 .. Len(act) : execs[drained[i]] = 1
           /\ (\A t \in Threads : pc[t] \notin {"drain", "launch"}) =>
                  \A id \in hist.swapRegs : execs[id] = 1

\* a function added before the swap has run, one added after it is left in
\* c.funcs, and CloseAll has been called again after completion
C14_Witness ==
    /\ hist.swaps = 1
    /\ hist.lateCall
    /\ doneClosed
    /\ \A t \in Threads : ~InOnce(t)
    /\ drained # << >>
    /\ funcs # << >>
    /\ \A id \in Range(funcs) : execs[id] = 0
    /\ \A id \in Range(drained) : execs[id] = 1

\* ---- C15 ------------------------------------------------------------------------
\* C15: completion is single-fire and monotonic. Over every interleaving of
\* Add, CloseAll, Wait and signal deliveries at most one value is sent on
\* done; done is closed only after that send and never a second time; no
\* send on the closed channel and no close of the closed channel happens
\* (either would panic); a caller that reaches the send of line 114 can
\* always perform it; and once completion is set, or done is closed, it
\* stays so.
C15_SingleFireMonotonic ==
    /\ [](/\ hist.sends <= 1
          /\ ~panicked
          /\ doneBuf <= DoneCap
          /\ (doneClosed => hist.sends = 1)
          /\ \A t \in Threads :
                 /\ (pc[t] = "send_done" => ~doneClosed /\ hist.sends = 0 /\ ENABLED SendDone(t))
                 /\ (pc[t] = "close_done" => ~doneClosed /\ hist.sends = 1))
    /\ [][/\ (CompletionSet => CompletionSet')
          /\ (doneClosed => doneClosed')
          /\ hist'.sends >= hist.sends]_vars

\* done is closed after its one send, a waiter has taken the value, and
\* CloseAll has been called again since
C15_Witness ==
    /\ doneClosed
    /\ onceDone
    /\ hist.sends = 1
    /\ doneBuf = 0
    /\ hist.lateCall
    /\ delivered

\* ---- C16 ------------------------------------------------------------------------
\* C16: re-entrant calls deadlock. While a drained function is inside a call
\* of CloseAll or Wait on the same Closer, completion is not set, the once
\* is held by the winning CloseAll, which is still in its launch or collect
\* loop, no Wait caller can receive and no CloseAll caller can enter the
\* once; and no step changes any of this: the function stays inside its
\* call, every caller inside CloseAll stays inside, every waiter stays in
\* Wait.
C16_ReentrantDeadlock ==
    /\ [](Reentrant =>
              /\ ~CompletionSet
              /\ ~onceDone
              /\ ~WaitCanRecv(doneBuf, doneClosed)
              /\ \E t \in Threads : pc[t] \in {"launch", "collect"} /\ onceM = {t}
              /\ \A t \in Threads : pc[t] = "once_lock" => ~ENABLED OnceLock(t)
              /\ \A p \in Procs : pc[p] = "wait" => ~ENABLED WaitRecv(p)
              /\ \A i \in 1 .. Len(act) :
                     act[i] \in {"in_wait", "in_once"} => ~ENABLED (\E e \in BOOLEAN : ActReturn(i, e)))
    /\ [][Reentrant =>
              /\ \A i \in 1 .. Len(act) :
                     act[i] \in {"in_wait", "in_once"} => i \in 1 .. Len(act') /\ act'[i] = act[i]
              /\ \A t \in Threads : InOnce(t) => InOnce(t)'
              /\ \A p \in Procs : pc[p] = "wait" => pc'[p] = "wait"]_vars

\* one drained function is inside c.Wait(), another inside c.CloseAll(), an
\* application goroutine is in Wait and another caller is at the once
C16_Witness ==
    /\ \E i \in 1 .. Len(act) : act[i] = "in_wait"
    /\ \E i \in 1 .. Len(act) : act[i] = "in_once"
    /\ \E p \in Procs : pc[p] = "wait"
    /\ \E t \in Threads : pc[t] = "once_lock"
    /\ \E t \in Threads : pc[t] = "collect"

\* ---- C17 ------------------------------------------------------------------------
\* C17: batch registration is atomic with respect to the drain. The
\* functions of one Add call are never split: they are all in c.funcs, or
\* all in the drained list, or (the Add still holds the mutex) in neither.
\* A batch in the drained list has all its functions executed once the launch
\* loop is over; a batch outside it after the swap has none executed, ever.
C17_BatchAtomic ==
    \A B \in hist.batches :
        /\ \/ B \subseteq Range(drained) /\ B \cap Range(funcs) = {}
           \/ B \subseteq Range(funcs) /\ B \cap Range(drained) = {}
           \/ /\ B \cap (Range(funcs) \cup Range(drained)) = {}
              /\ \E p \in Procs : pc[p] = "add_app" /\ Range(batch[p]) = B
        /\ B \cap Range(drained) = {} => \A id \in B : execs[id] = 0
        /\ (/\ B \subseteq Range(drained)
            /\ B # {}
            /\ \A t \in Threads : pc[t] \notin {"drain", "launch"}) =>
               \A id \in B : execs[id] = 1

\* an Add call with two functions finished while CloseAll was collecting
\* the outcomes of an earlier drain: both are in c.funcs, neither has run
C17_Witness ==
    /\ hist.swaps = 1
    /\ \E t \in Threads : pc[t] = "collect"
    /\ \E B \in hist.batches :
           /\ Cardinality(B) >= 2
           /\ B \subseteq Range(funcs)
           /\ \A id \in B : execs[id] = 0

\* ---- C18 ------------------------------------------------------------------------
\* C18: outcome reporting never blocks and no helper goroutine is left
\* behind. The outcome channel has room for one outcome per drained
\* function; a function goroutine that has its outcome can always send it,
\* and sends exactly one; the channel is closed only after every drained
\* function has sent, and nothing is sent on it afterwards; once the range
\* loop has ended the collector has received exactly one outcome per drained
\* function and every goroutine CloseAll started has terminated. Under fair
\* scheduling, after the drain either some function never returns or that
\* state is reached.
C18_OutcomeChannel ==
    /\ [](/\ ~panicked
          /\ hist.swaps > 0 =>
                 /\ ErrsCap(Len(drained)) = Len(drained)
                 /\ Len(errs) <= ErrsCap(Len(drained))
                 /\ hist.sent = Cardinality({i \in 1 .. Len(act) : act[i] = "fin"})
                 /\ hist.sent = hist.recvd + Len(errs)
          /\ \A i \in 1 .. Len(act) :
                 act[i] \in {"ret_ok", "ret_err"} => ~errsClosed /\ ENABLED ActSend(i)
          /\ errsClosed =>
                 /\ Len(act) = Len(drained)
                 /\ \A i \in 1 .. Len(act) : act[i] = "fin"
                 /\ hist.sent = Len(drained)
                 /\ closerPc = "exit"
          /\ (onceDone \/ \E t \in Threads : pc[t] \in {"send_done", "close_done", "once_store"}) =>
                 /\ errsClosed
                 /\ errs = << >>
                 /\ hist.recvd = Len(drained))
    /\ (hist.swaps > 0) ~>
           (AnyHung \/ (AllProcessed /\ errsClosed /\ closerPc = "exit" /\ hist.recvd = Len(drained)))

\* both drained functions have sent their outcome while CloseAll is still
\* in its launch loop: the buffer is full and nobody is receiving yet
C18_Witness ==
    /\ Len(drained) = 2
    /\ Len(errs) = 2
    /\ closerPc = "none"
    /\ \A i \in 1 .. Len(act) : act[i] = "fin"
    /\ \E t \in Threads : pc[t] = "launch"

====
